---- MODULE Spec2Model ----
(***************************************************************************)
(* State-machine model of src/TradeBot.cpp: main() deletes the CSV file    *)
(* of the ticker once, prints a banner, and then loops forever: announce,  *)
(* system("python scraper.py <ticker>"), report the outcome, announce the  *)
(* wait, sleep.                                                            *)
(*                                                                         *)
(* Strings are sequences of one-character strings, so that operator+ on    *)
(* std::string is \o and the shell's word splitting of the command line    *)
(* is computed, not assumed.                                               *)
(***************************************************************************)
EXTENDS Integers, Sequences, FiniteSets, TLC

VARIABLES
    pc,            \* position of main(): the statement about to run
    ticker,        \* std::string ticker                         (line 8)
    csvFilename,   \* std::string csvFilename                    (line 9)
    fs,            \* the paths that exist in the working directory
    readOnly,      \* the existing paths that remove() cannot delete
    removeResult,  \* value returned by remove()                 (line 12)
    status,        \* value returned by system()                 (line 25)
    outcome,       \* history: how the last call of system() went
    inFlight,      \* number of scraper subprocesses running
    hung,          \* the running subprocess never terminates
    startupLog,    \* what main() wrote before the loop
    cycleEvents,   \* what the current iteration of the loop has done so far
    prevCycle,     \* what the previous iteration did
    fsAtStart,     \* history: the directory as main() found it
    fileOps,       \* history: every file operation main() performed
    cycles,        \* history: calls of system() so far, counted up to MaxCount
    consecFailures,\* history: failures in a row, counted up to MaxCount
    execTime,      \* history: how long the last subprocess ran
    sinceStart,    \* history: time since the last call of system() began
    unpaused       \* history: calls of system() that returned, less sleeps that ended

vars == <<pc, ticker, csvFilename, fs, readOnly, removeResult, status, outcome,
          inFlight, hung, startupLog, cycleEvents, prevCycle, fsAtStart, fileOps, cycles,
          consecFailures, execTime, sinceStart, unpaused>>

----------------------------------------------------------------------------
(* Bounds of the model *)

MaxExitCode == 2     \* the subprocess exits with a code in 0..MaxExitCode
MaxSignal == 1       \* or is killed by a signal in 1..MaxSignal
MaxExec == 1         \* a subprocess runs for 0..MaxExec time units
MaxOversleep == 1    \* sleep_for may return up to MaxOversleep late
MaxCount == 3        \* the history counters stop counting here

(* Numbers written in the program *)

SleepSeconds == 15      \* std::chrono::seconds(15)
PauseMsgSeconds == 15   \* "Waiting 15 seconds..."
BannerSeconds == 60     \* "... every 60 seconds..."

----------------------------------------------------------------------------
(* Strings *)

SPY == <<"S", "P", "Y">>

CsvSuffix ==
    <<"_", "s", "t", "o", "c", "k", "_", "d", "a", "t", "a", ".", "c", "s", "v">>

ScraperPrefix ==
    <<"p", "y", "t", "h", "o", "n", " ",
      "s", "c", "r", "a", "p", "e", "r", ".", "p", "y", " ">>

ScraperPy == <<"s", "c", "r", "a", "p", "e", "r", ".", "p", "y">>

\* ticker + "_stock_data.csv"
CsvFilenameOf(t) == t \o CsvSuffix

\* Mutant: the blank between the script and the ticker is forgotten.
ScraperCommandNoBlank(t) == SubSeq(ScraperPrefix, 1, Len(ScraperPrefix) - 1) \o t

\* "python scraper.py " + ticker
ScraperCommand(t) == ScraperPrefix \o t

\* The words the command interpreter splits a command line into.
RECURSIVE Words(_, _, _)
Words(s, cur, acc) ==
    IF s = <<>>
    THEN IF cur = <<>> THEN acc ELSE Append(acc, cur)
    ELSE IF Head(s) = " "
         THEN Words(Tail(s), <<>>, IF cur = <<>> THEN acc ELSE Append(acc, cur))
         ELSE Words(Tail(s), Append(cur, Head(s)), acc)

\* The positional arguments scraper.py receives from a command line
\* "python scraper.py a b ...".
ScriptArgs(cmd) ==
    LET w == Words(cmd, <<>>, <<>>)
    IN  IF Len(w) >= 2 THEN SubSeq(w, 3, Len(w)) ELSE <<>>

\* Another file of the working directory, which main() never names.
OtherFile == ScraperPy

Paths == {CsvFilenameOf(SPY), OtherFile}

----------------------------------------------------------------------------
(* Output and events *)

Event(stream, text, name, secs) ==
    [stream |-> stream, text |-> text, name |-> name, secs |-> secs]

DeletedMsg(path) == Event("cout", "Deleted old CSV file: ", path, 0)
NotDeletedMsg == Event("cout", "No CSV file to delete or failed to delete.", <<>>, 0)
BannerMsg(t) == Event("cout", "Starting stock data scraper for ", t, BannerSeconds)
RunningMsg(t) == Event("cout", "Running Python scraper for ", t, 0)
SuccessMsg == Event("cout", "Stock data scraped successfully.", <<>>, 0)
FailedMsg == Event("cerr", "Failed to run the Python script.", <<>>, 0)
WaitingMsg == Event("cout", "Waiting", <<>>, PauseMsgSeconds)
SystemEvent(cmd) == Event("none", "system", cmd, 0)
SleepEvent(secs) == Event("none", "sleep_for", <<>>, secs)

Bump(n) == IF n < MaxCount THEN n + 1 ELSE n

----------------------------------------------------------------------------
(* The subprocess and system() *)

\* How a launched subprocess can end.
ChildOutcomes ==
    {<<"exit", c>> : c \in 0..MaxExitCode}
        \cup {<<"notfound", 127>>}
        \cup {<<"signal", s>> : s \in 1..MaxSignal}

\* The value system() returns for a subprocess that ended with outcome o:
\* the exit code in the high byte, the terminating signal in the low one.
SystemResult(o) ==
    IF o[1] = "signal" THEN o[2] ELSE o[2] * 256

\* The value system() returns when no subprocess could be created.
LaunchFailed == -1

----------------------------------------------------------------------------
Init ==
    /\ pc = "remove"
    /\ ticker = SPY
    /\ csvFilename = CsvFilenameOf(SPY)
    /\ fs \in SUBSET Paths
    /\ readOnly \in SUBSET fs
    /\ fsAtStart = fs
    /\ removeResult = 0
    /\ status = 0
    /\ outcome = <<"none", 0>>
    /\ inFlight = 0
    /\ hung = FALSE
    /\ startupLog = <<>>
    /\ cycleEvents = <<>>
    /\ prevCycle = <<>>
    /\ fileOps = <<>>
    /\ cycles = 0
    /\ consecFailures = 0
    /\ execTime = 0
    /\ sinceStart = 0
    /\ unpaused = 0

\* remove(csvFilename.c_str())
Remove ==
    /\ pc = "remove"
    /\ IF csvFilename \in fs /\ csvFilename \notin readOnly
       THEN /\ fs' = fs \ {csvFilename}
            /\ removeResult' = 0
       ELSE /\ fs' = fs
            /\ removeResult' = -1
    /\ fileOps' = Append(fileOps, [op |-> "remove", path |-> csvFilename, cycle |-> cycles])
    /\ pc' = "remove_test"
    /\ UNCHANGED <<unpaused, ticker, csvFilename, readOnly, status, outcome, inFlight, hung, startupLog,
                   cycleEvents, prevCycle, fsAtStart, cycles, consecFailures,
                   execTime, sinceStart>>

\* Mutant: if (remove(...)), which takes a nonzero result for a deletion.
ReportDeletedIfNonzero ==
    /\ pc = "remove_test"
    /\ removeResult # 0
    /\ startupLog' = Append(startupLog, DeletedMsg(csvFilename))
    /\ pc' = "banner"
    /\ UNCHANGED <<unpaused, ticker, csvFilename, fs, readOnly, removeResult, status, outcome,
                   inFlight, hung, cycleEvents, prevCycle, fsAtStart, fileOps, cycles,
                   consecFailures, execTime, sinceStart>>

\* if (remove(...) == 0) { cout << "Deleted old CSV file: " << csvFilename }
ReportDeleted ==
    /\ pc = "remove_test"
    /\ removeResult = 0
    /\ startupLog' = Append(startupLog, DeletedMsg(csvFilename))
    /\ pc' = "banner"
    /\ UNCHANGED <<unpaused, ticker, csvFilename, fs, readOnly, removeResult, status, outcome,
                   inFlight, hung, cycleEvents, prevCycle, fsAtStart, fileOps, cycles,
                   consecFailures, execTime, sinceStart>>

\* Mutant: a file that cannot be deleted ends the program.
ReportNotDeletedAbort ==
    /\ pc = "remove_test"
    /\ removeResult # 0
    /\ startupLog' = Append(startupLog, NotDeletedMsg)
    /\ pc' = "done"
    /\ UNCHANGED <<unpaused, ticker, csvFilename, fs, readOnly, removeResult, status, outcome,
                   inFlight, hung, cycleEvents, prevCycle, fsAtStart, fileOps, cycles,
                   consecFailures, execTime, sinceStart>>

\* else { cout << "No CSV file to delete or failed to delete." }
ReportNotDeleted ==
    /\ pc = "remove_test"
    /\ removeResult # 0
    /\ startupLog' = Append(startupLog, NotDeletedMsg)
    /\ pc' = "banner"
    /\ UNCHANGED <<unpaused, ticker, csvFilename, fs, readOnly, removeResult, status, outcome,
                   inFlight, hung, cycleEvents, prevCycle, fsAtStart, fileOps, cycles,
                   consecFailures, execTime, sinceStart>>

\* Mutant: the loop is entered at its wait, so a pause precedes the first call.
BannerThenWait ==
    /\ pc = "banner"
    /\ startupLog' = Append(startupLog, BannerMsg(ticker))
    /\ pc' = "waiting_msg"
    /\ UNCHANGED <<unpaused, ticker, csvFilename, fs, readOnly, removeResult, status, outcome,
                   inFlight, hung, cycleEvents, prevCycle, fsAtStart, fileOps, cycles,
                   consecFailures, execTime, sinceStart>>

\* cout << "Starting stock data scraper for " << ticker << " every 60 seconds..."
Banner ==
    /\ pc = "banner"
    /\ startupLog' = Append(startupLog, BannerMsg(ticker))
    /\ pc' = "loop"
    /\ UNCHANGED <<unpaused, ticker, csvFilename, fs, readOnly, removeResult, status, outcome,
                   inFlight, hung, cycleEvents, prevCycle, fsAtStart, fileOps, cycles,
                   consecFailures, execTime, sinceStart>>

\* Mutant: the loop gives up after MaxCount failures in a row.
LoopWhileHealthy == consecFailures < MaxCount

\* The condition of while (true).
LoopCondition == TRUE

\* while (true) {   ...   }   return 0;
LoopTest ==
    /\ pc = "loop"
    /\ pc' = IF LoopCondition THEN "announce" ELSE "done"
    /\ UNCHANGED <<unpaused, ticker, csvFilename, fs, readOnly, removeResult, status, outcome,
                   inFlight, hung, startupLog, cycleEvents, prevCycle, fsAtStart, fileOps,
                   cycles, consecFailures, execTime, sinceStart>>

\* Mutant: the CSV file is deleted at the start of every iteration.
AnnounceAfterRemove ==
    /\ pc = "announce"
    /\ fs' = fs \ ({csvFilename} \ readOnly)
    /\ fileOps' = Append(fileOps, [op |-> "remove", path |-> csvFilename, cycle |-> cycles])
    /\ prevCycle' = cycleEvents
    /\ cycleEvents' = <<RunningMsg(ticker)>>
    /\ pc' = "system"
    /\ UNCHANGED <<unpaused, ticker, csvFilename, readOnly, removeResult, status, outcome,
                   inFlight, hung, startupLog, fsAtStart, cycles, consecFailures,
                   execTime, sinceStart>>

\* cout << "Running Python scraper for " << ticker << "..."
Announce ==
    /\ pc = "announce"
    /\ prevCycle' = cycleEvents
    /\ cycleEvents' = <<RunningMsg(ticker)>>
    /\ pc' = "system"
    /\ UNCHANGED <<unpaused, ticker, csvFilename, fs, readOnly, removeResult, status, outcome,
                   inFlight, hung, startupLog, fsAtStart, fileOps, cycles, consecFailures,
                   execTime, sinceStart>>

\* Mutant: the command is started in the background, so system() returns 0
\* while the subprocess is still running.
SystemCallBackground ==
    /\ pc = "system"
    /\ cycleEvents' = Append(cycleEvents, SystemEvent(ScraperCommand(ticker)))
    /\ cycles' = Bump(cycles)
    /\ sinceStart' = 0
    /\ execTime' = 0
    /\ inFlight' = inFlight + 1
    /\ hung' \in BOOLEAN
    /\ status' = 0
    /\ outcome' = <<"running", 0>>
    /\ unpaused' = unpaused + 1
    /\ pc' = "system_test"
    /\ UNCHANGED <<ticker, csvFilename, fs, readOnly, removeResult, startupLog,
                   prevCycle, fsAtStart, fileOps, consecFailures>>

\* system(("python scraper.py " + ticker).c_str()): the call.  Either no
\* subprocess can be created and system() returns at once, or one starts and
\* main() is blocked until it ends.
SystemCall ==
    /\ pc = "system"
    /\ cycleEvents' = Append(cycleEvents, SystemEvent(ScraperCommand(ticker)))
    /\ cycles' = Bump(cycles)
    /\ sinceStart' = 0
    /\ execTime' = 0
    /\ \/ /\ status' = LaunchFailed
          /\ outcome' = <<"nolaunch", 0>>
          /\ unpaused' = unpaused + 1
          /\ pc' = "system_test"
          /\ UNCHANGED <<inFlight, hung>>
       \/ /\ inFlight' = inFlight + 1
          /\ hung' \in BOOLEAN
          /\ outcome' = <<"running", 0>>
          /\ pc' = "blocked"
          /\ UNCHANGED <<status, unpaused>>
    /\ UNCHANGED <<ticker, csvFilename, fs, readOnly, removeResult, startupLog,
                   prevCycle, fsAtStart, fileOps, consecFailures>>

\* Mutant: system() gives up on a subprocess that does not end and returns
\* as if a signal had ended it.
ChildTerminatesOrTimeout ==
    /\ pc = "blocked"
    /\ inFlight > 0
    /\ \E o \in ChildOutcomes, d \in 0..MaxExec, wrote \in BOOLEAN :
          /\ status' = SystemResult(IF hung THEN <<"signal", 1>> ELSE o)
          /\ outcome' = IF hung THEN <<"signal", 1>> ELSE o
          /\ execTime' = d
          /\ sinceStart' = sinceStart + d
          /\ fs' = IF wrote THEN fs \cup {csvFilename} ELSE fs
    /\ inFlight' = inFlight - 1
    /\ unpaused' = unpaused + 1
    /\ pc' = "system_test"
    /\ UNCHANGED <<ticker, csvFilename, readOnly, removeResult, hung, startupLog,
                   cycleEvents, prevCycle, fsAtStart, fileOps, cycles,
                   consecFailures>>

\* The subprocess ends, having possibly written the CSV file, and system()
\* returns its termination status.
ChildTerminates ==
    /\ pc = "blocked"
    /\ inFlight > 0
    /\ ~hung
    /\ \E o \in ChildOutcomes, d \in 0..MaxExec, wrote \in BOOLEAN :
          /\ status' = SystemResult(o)
          /\ outcome' = o
          /\ execTime' = d
          /\ sinceStart' = sinceStart + d
          /\ fs' = IF wrote THEN fs \cup {csvFilename} ELSE fs
    /\ inFlight' = inFlight - 1
    /\ unpaused' = unpaused + 1
    /\ pc' = "system_test"
    /\ UNCHANGED <<ticker, csvFilename, readOnly, removeResult, hung, startupLog,
                   cycleEvents, prevCycle, fsAtStart, fileOps, cycles,
                   consecFailures>>

\* Mutant: success is taken to mean that system() could start the command.
ReportSuccessIfLaunched ==
    /\ pc = "system_test"
    /\ status # LaunchFailed
    /\ cycleEvents' = Append(cycleEvents, SuccessMsg)
    /\ consecFailures' = 0
    /\ pc' = "waiting_msg"
    /\ UNCHANGED <<unpaused, ticker, csvFilename, fs, readOnly, removeResult, status, outcome,
                   inFlight, hung, startupLog, prevCycle, fsAtStart, fileOps, cycles,
                   execTime, sinceStart>>

\* if (system(...) == 0) { cout << "Stock data scraped successfully." }
ReportSuccess ==
    /\ pc = "system_test"
    /\ status = 0
    /\ cycleEvents' = Append(cycleEvents, SuccessMsg)
    /\ consecFailures' = 0
    /\ pc' = "waiting_msg"
    /\ UNCHANGED <<unpaused, ticker, csvFilename, fs, readOnly, removeResult, status, outcome,
                   inFlight, hung, startupLog, prevCycle, fsAtStart, fileOps, cycles,
                   execTime, sinceStart>>

\* Mutant: a failed run is retried at once, without the wait.
ReportFailureRetry ==
    /\ pc = "system_test"
    /\ status # 0
    /\ cycleEvents' = Append(cycleEvents, FailedMsg)
    /\ consecFailures' = Bump(consecFailures)
    /\ pc' = "loop"
    /\ UNCHANGED <<unpaused, ticker, csvFilename, fs, readOnly, removeResult, status, outcome,
                   inFlight, hung, startupLog, prevCycle, fsAtStart, fileOps, cycles,
                   execTime, sinceStart>>

\* Mutant: the failure line is written to the standard stream.
ReportFailureToCout ==
    /\ pc = "system_test"
    /\ status # 0
    /\ cycleEvents' = Append(cycleEvents, [FailedMsg EXCEPT !.stream = "cout"])
    /\ consecFailures' = Bump(consecFailures)
    /\ pc' = "waiting_msg"
    /\ UNCHANGED <<unpaused, ticker, csvFilename, fs, readOnly, removeResult, status, outcome,
                   inFlight, hung, startupLog, prevCycle, fsAtStart, fileOps, cycles,
                   execTime, sinceStart>>

\* else { cerr << "Failed to run the Python script." }
ReportFailure ==
    /\ pc = "system_test"
    /\ status # 0
    /\ cycleEvents' = Append(cycleEvents, FailedMsg)
    /\ consecFailures' = Bump(consecFailures)
    /\ pc' = "waiting_msg"
    /\ UNCHANGED <<unpaused, ticker, csvFilename, fs, readOnly, removeResult, status, outcome,
                   inFlight, hung, startupLog, prevCycle, fsAtStart, fileOps, cycles,
                   execTime, sinceStart>>

\* cout << "Waiting 15 seconds..."
WaitingAnnounce ==
    /\ pc = "waiting_msg"
    /\ cycleEvents' = Append(cycleEvents, WaitingMsg)
    /\ pc' = "sleep"
    /\ UNCHANGED <<unpaused, ticker, csvFilename, fs, readOnly, removeResult, status, outcome,
                   inFlight, hung, startupLog, prevCycle, fsAtStart, fileOps, cycles,
                   consecFailures, execTime, sinceStart>>

\* Mutant: sleep_for(std::chrono::milliseconds(15)), no whole time unit.
SleepMilliseconds ==
    /\ pc = "sleep"
    /\ cycleEvents' = Append(cycleEvents, SleepEvent(0))
    /\ \E late \in 0..MaxOversleep : sinceStart' = sinceStart + late
    /\ unpaused' = unpaused - 1
    /\ pc' = "loop"
    /\ UNCHANGED <<ticker, csvFilename, fs, readOnly, removeResult, status, outcome,
                   inFlight, hung, startupLog, prevCycle, fsAtStart, fileOps, cycles,
                   consecFailures, execTime>>

\* Mutant: the wait grows with the number of failures in a row.
SleepBackoff ==
    /\ pc = "sleep"
    /\ cycleEvents' = Append(cycleEvents, SleepEvent(SleepSeconds * (consecFailures + 1)))
    /\ \E late \in 0..MaxOversleep :
          sinceStart' = sinceStart + SleepSeconds * (consecFailures + 1) + late
    /\ unpaused' = unpaused - 1
    /\ pc' = "loop"
    /\ UNCHANGED <<ticker, csvFilename, fs, readOnly, removeResult, status, outcome,
                   inFlight, hung, startupLog, prevCycle, fsAtStart, fileOps, cycles,
                   consecFailures, execTime>>

\* std::this_thread::sleep_for(std::chrono::seconds(15)): blocks for at least
\* the duration asked for.
Sleep ==
    /\ pc = "sleep"
    /\ cycleEvents' = Append(cycleEvents, SleepEvent(SleepSeconds))
    /\ \E late \in 0..MaxOversleep : sinceStart' = sinceStart + SleepSeconds + late
    /\ unpaused' = unpaused - 1
    /\ pc' = "loop"
    /\ UNCHANGED <<ticker, csvFilename, fs, readOnly, removeResult, status, outcome,
                   inFlight, hung, startupLog, prevCycle, fsAtStart, fileOps, cycles,
                   consecFailures, execTime>>

Next ==
    \/ Remove
    \/ ReportDeleted
    \/ ReportNotDeleted
    \/ Banner
    \/ LoopTest
    \/ Announce
    \/ SystemCall
    \/ ChildTerminates
    \/ ReportSuccess
    \/ ReportFailure
    \/ WaitingAnnounce
    \/ Sleep

Spec == Init /\ [][Next]_vars

\* main() is the only thread and is never descheduled forever: whenever it has
\* a next step, it takes it.  A hung subprocess leaves it without one.
FairSpec == Spec /\ WF_vars(Next)


----------------------------------------------------------------------------
(* Vocabulary of the properties *)

\* system() has just been called in the current iteration.
JustInvoked == Len(cycleEvents) = 2

\* The current iteration has reported its outcome.
Reported == Len(cycleEvents) >= 3

ReportedSuccess == Reported /\ cycleEvents[3].text = "Stock data scraped successfully."
ReportedFailure == Reported /\ cycleEvents[3].text = "Failed to run the Python script."

\* The previous iteration ran and reported a failure.
PrevFailed == Len(prevCycle) >= 3 /\ prevCycle[3].text = "Failed to run the Python script."

\* The subprocess of the current iteration exited with code 0.
ExitedZero == outcome = <<"exit", 0>>

----------------------------------------------------------------------------
\* C1: a cycle is reported as a success exactly when its subprocess exited
\* with code 0, and as a failure for every other way the call of system()
\* can go (nonzero exit, command not found, killed by a signal, no
\* subprocess created), whatever the earlier cycles and the startup deletion
\* did.
C1_ClassifiedByStatusOnly ==
    Reported =>
        /\ ReportedSuccess <=> ExitedZero
        /\ ReportedFailure <=> ~ExitedZero
        /\ ExitedZero <=> status = 0

\* A success reported right after a failed cycle, in a run whose startup
\* deletion failed.
C1_Witness ==
    /\ ReportedSuccess
    /\ ExitedZero
    /\ PrevFailed
    /\ removeResult # 0

\* C2: a failed cycle neither ends main() nor is retried at once: the call of
\* system() that follows a failed cycle comes after that cycle's "Waiting"
\* line and its sleep, and after every reported failure system() is called
\* again.
C2_FailureThenPauseThenInvoke ==
    /\ [](ReportedFailure => pc # "done")
    /\ [](JustInvoked /\ PrevFailed =>
            /\ Len(prevCycle) = 5
            /\ prevCycle[4].text = "Waiting"
            /\ prevCycle[5].text = "sleep_for"
            /\ prevCycle[5].secs = 15)
    /\ ((ReportedFailure /\ pc = "waiting_msg") ~> JustInvoked)

\* system() has been called again after a failed cycle and its sleep.
C2_Witness ==
    /\ JustInvoked
    /\ PrevFailed
    /\ Len(prevCycle) = 5

\* C3: main() never leaves the loop, and as long as no subprocess hangs,
\* system() is called again and again, whatever the outcomes of the cycles.
C3_NoTerminalState ==
    /\ [](pc # "done")
    /\ ([](~hung) => ([]<>(pc = "system") /\ []<>JustInvoked))

\* Many cycles have run, a failed one followed by a successful one.
C3_Witness ==
    /\ cycles = MaxCount
    /\ PrevFailed
    /\ ReportedSuccess
    /\ pc = "loop"

\* C4: main() calls remove() on the CSV file exactly once, before the first
\* call of system(), and performs no other file operation, however many
\* cycles run.
C4_ResetOnceBeforeLoop ==
    /\ Len(fileOps) <= 1
    /\ pc = "remove" => fileOps = <<>> /\ cycles = 0
    /\ pc # "remove" =>
          /\ Len(fileOps) = 1
          /\ fileOps[1].op = "remove"
          /\ fileOps[1].path = csvFilename
          /\ fileOps[1].cycle = 0

\* Several cycles have run and the one remove() is still the only operation.
C4_Witness ==
    /\ cycles = MaxCount
    /\ Len(prevCycle) = 5
    /\ Len(fileOps) = 1

\* The startup deletion has reported its result and no subprocess has run yet.
ResetReported == Len(startupLog) >= 1 /\ cycles = 0

\* The CSV file was there at startup and remove() was able to delete it.
WasDeletable == csvFilename \in fsAtStart /\ csvFilename \notin readOnly

\* The first call of system() has just been made.
FirstInvocation == cycles = 1 /\ JustInvoked /\ prevCycle = <<>>

\* The number of sleeps an iteration made.
Sleeps(events) == Cardinality({i \in DOMAIN events : events[i].text = "sleep_for"})

\* The stream and the text of each event, in order.
Shape(events) == [i \in DOMAIN events |-> <<events[i].stream, events[i].text>>]

\* The text "SPY_stock_data.csv".
SpyCsv ==
    <<"S", "P", "Y", "_", "s", "t", "o", "c", "k", "_", "d", "a", "t", "a", ".", "c", "s", "v">>

\* C5: whatever remove() did (deleted the file, found none, could not delete
\* it), main() goes on to the loop and makes the first call of system(); it
\* never ends because of the deletion.
C5_ResetNeverFatal ==
    /\ <>(pc = "remove_test")
    /\ (pc = "remove_test" ~> FirstInvocation)
    /\ [](cycles = 0 => pc # "done")

\* The first call of system() in a run whose CSV file could not be deleted.
C5_Witness ==
    /\ FirstInvocation
    /\ removeResult # 0
    /\ csvFilename \in fsAtStart
    /\ csvFilename \in fs

\* C6: the startup deletion writes exactly one of its two lines, the one that
\* matches what happened: a CSV file that was there and deletable is gone and
\* the line naming it is written; otherwise the directory is as it was and the
\* "no file" line is written.  Nothing but the CSV file is ever removed.
C6_ResetMessageMatchesEffect ==
    ResetReported =>
        /\ IF WasDeletable
           THEN /\ fs = fsAtStart \ {SpyCsv}
                /\ SpyCsv \notin fs
                /\ startupLog[1].text = "Deleted old CSV file: "
                /\ startupLog[1].name = SpyCsv
           ELSE /\ fs = fsAtStart
                /\ startupLog[1].text = "No CSV file to delete or failed to delete."
        /\ Cardinality(fsAtStart \ fs) <= 1
        /\ fsAtStart \ fs \subseteq {SpyCsv}
        /\ \A i \in 2..Len(startupLog) :
              startupLog[i].text \notin {"Deleted old CSV file: ",
                                         "No CSV file to delete or failed to delete."}

\* The CSV file was deleted and reported, and the other file is still there.
C6_Witness ==
    /\ ResetReported
    /\ Len(startupLog) = 2
    /\ startupLog[1].text = "Deleted old CSV file: "
    /\ SpyCsv \in fsAtStart
    /\ fs = {OtherFile}

\* C7: at most one subprocess runs at any time, main() is blocked in system()
\* while it runs, and a call of system() after the first one comes after the
\* previous call returned and the sleep that followed it ended.
C7_OneInvocationAtATime ==
    /\ inFlight \in {0, 1}
    /\ inFlight = 1 <=> pc = "blocked"
    /\ JustInvoked /\ cycles >= 2 =>
          /\ Len(prevCycle) = 5
          /\ prevCycle[2].text = "system"
          /\ prevCycle[5].text = "sleep_for"

\* A subprocess is running, started after an earlier iteration completed.
C7_Witness ==
    /\ inFlight = 1
    /\ cycles >= 2
    /\ Len(prevCycle) = 5

\* C8: every sleep is asked to last 15 time units, after a success as after
\* any number of failures in a row, and exactly one sleep lies between two
\* consecutive calls of system().
C8_FixedPause ==
    /\ \A i \in DOMAIN cycleEvents :
          cycleEvents[i].text = "sleep_for" => cycleEvents[i].secs = 15
    /\ \A i \in DOMAIN prevCycle :
          prevCycle[i].text = "sleep_for" => prevCycle[i].secs = 15
    /\ Sleeps(cycleEvents) <= 1
    /\ pc \in {"loop", "announce"} /\ cycles >= 1 => Sleeps(cycleEvents) = 1
    /\ JustInvoked /\ cycles >= 2 => Sleeps(prevCycle) = 1 /\ Sleeps(cycleEvents) = 0

\* A sleep of 15 has just ended after several failures in a row.
C8_Witness ==
    /\ pc = "loop"
    /\ consecFailures >= 2
    /\ Len(cycleEvents) = 5
    /\ cycleEvents[5].secs = 15

\* C9: an iteration does, in this order and once each: the "Running" line,
\* the call of system(), one outcome line (the success line on cout after a
\* result of 0, the failure line on cerr otherwise), the "Waiting" line, the
\* sleep.
C9_CycleOrder ==
    LET expected ==
            << <<"cout", "Running Python scraper for ">>,
               <<"none", "system">>,
               IF status = 0
               THEN <<"cout", "Stock data scraped successfully.">>
               ELSE <<"cerr", "Failed to run the Python script.">>,
               <<"cout", "Waiting">>,
               <<"none", "sleep_for">> >>
        done ==
            CASE pc \in {"remove", "remove_test", "banner"} -> 0
              [] pc \in {"loop", "announce"} -> IF cycles = 0 THEN 0 ELSE 5
              [] pc = "system" -> 1
              [] pc \in {"blocked", "system_test"} -> 2
              [] pc = "waiting_msg" -> 3
              [] pc = "sleep" -> 4
              [] OTHER -> 6
    IN  /\ Len(cycleEvents) = done
        /\ Shape(cycleEvents) = SubSeq(expected, 1, done)
        /\ prevCycle # <<>> =>
              /\ Len(prevCycle) = 5
              /\ \A i \in {1, 2, 4, 5} : Shape(prevCycle)[i] = expected[i]
              /\ Shape(prevCycle)[3] \in {<<"cout", "Stock data scraped successfully.">>,
                                          <<"cerr", "Failed to run the Python script.">>}

\* A failed iteration has run to the end of its sleep.
C9_Witness ==
    /\ pc = "loop"
    /\ Len(cycleEvents) = 5
    /\ cycleEvents[3].stream = "cerr"
    /\ status # 0

\* C10: the ticker is "SPY" throughout, every command line given to system()
\* passes exactly that one argument to the script, and the CSV file name is
\* the ticker followed by "_stock_data.csv".
C10_IdentifierFixed ==
    /\ ticker = <<"S", "P", "Y">>
    /\ csvFilename = SpyCsv
    /\ csvFilename = ticker \o SubSeq(SpyCsv, 4, Len(SpyCsv))
    /\ \A i \in DOMAIN fileOps : fileOps[i].path = SpyCsv
    /\ \A i \in DOMAIN cycleEvents :
          cycleEvents[i].text = "system" =>
              ScriptArgs(cycleEvents[i].name) = << <<"S", "P", "Y">> >>
    /\ \A i \in DOMAIN prevCycle :
          prevCycle[i].text = "system" =>
              /\ ScriptArgs(prevCycle[i].name) = << <<"S", "P", "Y">> >>
              /\ SubSeq(Words(prevCycle[i].name, <<>>, <<>>), 1, 2)
                    = << <<"p", "y", "t", "h", "o", "n">>, ScraperPy >>

\* system() has been called in two iterations.
C10_Witness ==
    /\ JustInvoked
    /\ Len(prevCycle) = 5
    /\ cycles >= 2

\* An iteration has ended and the next call of system() has not been made.
BetweenCalls == pc \in {"loop", "announce", "system"} /\ cycles >= 1

\* C11: when the next call of system() is about to be made, at least the
\* running time of the last subprocess plus 15 time units have passed since
\* the last call began, whatever the outcome was.
C11_IterationDuration ==
    /\ BetweenCalls => sinceStart >= execTime + 15
    /\ pc \in {"system_test", "waiting_msg", "sleep"} => sinceStart = execTime

\* The next call is due after a subprocess that ran for the longest time and
\* failed, and a sleep that returned on time.
C11_Witness ==
    /\ pc = "system"
    /\ cycles >= 2
    /\ execTime = MaxExec
    /\ status # 0
    /\ sinceStart = execTime + 15

\* C12: main() sets no time limit on the subprocess: once a subprocess that
\* never ends is running, main() stays blocked in system() for good, and
\* writes no outcome line, makes no pause and calls system() no more.
C12_HungBlocksForever ==
    /\ [](hung => pc = "blocked" /\ inFlight = 1 /\ JustInvoked)
    /\ [][hung => UNCHANGED <<pc, cycleEvents, prevCycle, cycles, status>>]_vars
    /\ [](hung => [](pc = "blocked" /\ JustInvoked))

\* A subprocess that never ends is running, after earlier iterations.
C12_Witness ==
    /\ hung
    /\ pc = "blocked"
    /\ JustInvoked
    /\ cycles >= 2

\* C13: every interval main() writes to the console is the interval it sleeps:
\* the period in the startup banner and the duration in each "Waiting" line
\* both equal the 15 seconds given to sleep_for.
C13_AnnouncedIntervalIsSlept ==
    /\ \A i \in DOMAIN startupLog :
          startupLog[i].text = "Starting stock data scraper for " =>
              startupLog[i].secs = SleepSeconds
    /\ \A i \in DOMAIN cycleEvents :
          cycleEvents[i].text \in {"Waiting", "sleep_for"} =>
              cycleEvents[i].secs = SleepSeconds
    /\ SleepSeconds = 15

\* C14: no pause comes before the first call of system(), and a pause only
\* follows a call that returned: the sleeps that ended number as many as the
\* calls that returned, or one less, and never more.
C14_PausesFollowInvocations ==
    /\ unpaused \in {0, 1}
    /\ unpaused = 1 <=> pc \in {"system_test", "waiting_msg", "sleep"}
    /\ cycles = 0 => unpaused = 0 /\ Sleeps(cycleEvents) = 0
    /\ FirstInvocation => Sleeps(cycleEvents) = 0

\* A later call has returned and its pause has not been made yet.
C14_Witness ==
    /\ unpaused = 1
    /\ pc = "sleep"
    /\ cycles >= 2
    /\ Sleeps(prevCycle) = 1

====
